---- MODULE Spec2Model ----
(***************************************************************************)
(* Hook.Collection (src/src/collection.js): the query builder of the hook  *)
(* javascript client.  A Collection accumulates filters (wheres, ordering, *)
(* _group, options, _limit, _offset, _remember), buildQuery() compiles the *)
(* accumulator into a query object and resets it, and the terminal methods *)
(* hand a path and a query or payload to the client's get/post/put/remove. *)
(*                                                                         *)
(* JavaScript values are records [type, num, str, arr]:                    *)
(*   numbers are kept in tenths (num = 10 * value), so that -1.5 exists;   *)
(*   strings are sequences of one-character strings in str;                *)
(*   array literals, arguments objects and plain objects keep their        *)
(*   elements in arr (an object's arr is its own properties, as [key,      *)
(*   value] pairs in for-in order);                                        *)
(*   the arrays the code mutates in place with push (this.wheres and       *)
(*   this.ordering) live in the heap and are held by reference.            *)
(***************************************************************************)
EXTENDS Integers, Sequences, FiniteSets, TLC

VARIABLES
  cols,    \* the Collection instances: builder id -> its fields
  heap,    \* the arrays held by reference: ref -> sequence of elements
  client,  \* the transport: the sequence of requests handed to the client
  history  \* the calls made so far: builder, method, arguments, threw, returned

vars == <<cols, heap, client, history>>

----------------------------------------------------------------------------
(* JavaScript values *)

JS(t, n, s, a) == [type |-> t, num |-> n, str |-> s, arr |-> a]

Undefined == JS("undefined", 0, <<>>, <<>>)
Null == JS("null", 0, <<>>, <<>>)
True == JS("boolean", 1, <<>>, <<>>)
\* the whole number i
Num(i) == JS("number", i * 10, <<>>, <<>>)
\* the number t / 10
Tenths(t) == JS("number", t, <<>>, <<>>)
Str(s) == JS("string", 0, s, <<>>)
Arr(es) == JS("array", 0, <<>>, es)
Arguments(es) == JS("arguments", 0, <<>>, es)
\* a function, known by its source text
Fn(name) == JS("function", 0, name, <<>>)
Prop(k, v) == Arr(<<Str(k), v>>)
Obj(props) == JS("object", 0, <<>>, props)
\* an array the code mutates in place, held by reference
ArrayRef(r) == JS("arrayref", r, <<>>, <<>>)

typeof(v) ==
  CASE v.type = "undefined" -> "undefined"
    [] v.type = "number" -> "number"
    [] v.type = "string" -> "string"
    [] v.type = "boolean" -> "boolean"
    [] v.type = "function" -> "function"
    [] OTHER -> "object"

\* ToBoolean: what `if (v)` and `!v` test
Truthy(v) ==
  CASE v.type = "undefined" -> FALSE
    [] v.type = "null" -> FALSE
    [] v.type = "number" -> v.num # 0
    [] v.type = "string" -> v.str # <<>>
    [] v.type = "boolean" -> v.num = 1
    [] OTHER -> TRUE

instanceofArray(v) == v.type \in {"array", "arrayref"}

\* a[i] of an array literal (0-based); undefined past its end
Idx(a, i) == IF i + 1 <= Len(a.arr) THEN a.arr[i + 1] ELSE Undefined

LowerChar(ch) ==
  CASE ch = "A" -> "a" [] ch = "B" -> "b" [] ch = "C" -> "c" [] ch = "D" -> "d"
    [] ch = "E" -> "e" [] ch = "F" -> "f" [] ch = "G" -> "g" [] ch = "H" -> "h"
    [] ch = "I" -> "i" [] ch = "J" -> "j" [] ch = "K" -> "k" [] ch = "L" -> "l"
    [] ch = "M" -> "m" [] ch = "N" -> "n" [] ch = "O" -> "o" [] ch = "P" -> "p"
    [] ch = "Q" -> "q" [] ch = "R" -> "r" [] ch = "S" -> "s" [] ch = "T" -> "t"
    [] ch = "U" -> "u" [] ch = "V" -> "v" [] ch = "W" -> "w" [] ch = "X" -> "x"
    [] ch = "Y" -> "y" [] ch = "Z" -> "z" [] OTHER -> ch

\* String.prototype.toLowerCase on the characters of a string
toLowerCase(s) == [i \in DOMAIN s |-> LowerChar(s[i])]

DigitChar(d) ==
  CASE d = 0 -> "0" [] d = 1 -> "1" [] d = 2 -> "2" [] d = 3 -> "3" [] d = 4 -> "4"
    [] d = 5 -> "5" [] d = 6 -> "6" [] d = 7 -> "7" [] d = 8 -> "8" [] OTHER -> "9"

RECURSIVE Digits(_)
Digits(n) == IF n < 10 THEN <<DigitChar(n)>> ELSE Digits(n \div 10) \o <<DigitChar(n % 10)>>

\* Number.prototype.toString of a number kept in tenths
NumberToString(t) ==
  LET m == IF t < 0 THEN -t ELSE t
  IN (IF t < 0 THEN <<"-">> ELSE <<>>) \o Digits(m \div 10)
       \o (IF m % 10 = 0 THEN <<>> ELSE <<".", DigitChar(m % 10)>>)

s_hasOwnProperty == <<"h", "a", "s", "O", "w", "n", "P", "r", "o", "p", "e", "r", "t", "y">>
s_toString == <<"t", "o", "S", "t", "r", "i", "n", "g">>

\* whether a plain object has the own property key
HasOwn(v, key) ==
  v.type = "object" /\ \E i \in DOMAIN v.arr : Idx(v.arr[i], 0) = Str(key)

\* the value of the own property key of a plain object that has it
Own(v, key) ==
  Idx(v.arr[CHOOSE i \in DOMAIN v.arr : Idx(v.arr[i], 0) = Str(key)], 1)

\* whether converting v to a string is a TypeError: a plain object whose own
\* toString is not a function has no way to a primitive (the inherited valueOf
\* returns the object itself), and an array joins the strings of its elements.
\* An own toString or valueOf that is a function would be called; functions are
\* known here by their text only, so no value of the model has one.
RECURSIVE ToStringThrows(_)
ToStringThrows(v) ==
  CASE v.type = "object" ->
         HasOwn(v, s_toString) /\ typeof(Own(v, s_toString)) # "function"
    [] v.type = "array" ->
         \E i \in DOMAIN v.arr :
           v.arr[i].type \notin {"undefined", "null"} /\ ToStringThrows(v.arr[i])
    [] OTHER -> FALSE

\* an object that cannot be converted to a string: {toString: 1}
NoString == Obj(<<Prop(s_toString, Num(1))>>)

\* ToString, as string concatenation ('/' + _id) and RegExp.test apply it:
\* Array.prototype.join for an array (null and undefined elements give ""),
\* "[object Object]" and "[object Arguments]", the source text of a function
RECURSIVE JSToString(_), ArrayJoin(_)
ArrayJoin(es) ==
  IF es = <<>> THEN <<>>
  ELSE (IF Head(es).type \in {"undefined", "null"} THEN <<>> ELSE JSToString(Head(es)))
         \o (IF Len(es) > 1 THEN <<",">> \o ArrayJoin(Tail(es)) ELSE <<>>)

JSToString(v) ==
  CASE v.type = "string" -> v.str
    [] v.type = "number" -> NumberToString(v.num)
    [] v.type = "undefined" -> <<"u", "n", "d", "e", "f", "i", "n", "e", "d">>
    [] v.type = "null" -> <<"n", "u", "l", "l">>
    [] v.type = "boolean" -> IF v.num = 1 THEN <<"t", "r", "u", "e">>
                                           ELSE <<"f", "a", "l", "s", "e">>
    [] v.type = "array" -> ArrayJoin(v.arr)
    [] v.type = "function" -> v.str
    [] v.type = "arguments" ->
         <<"[", "o", "b", "j", "e", "c", "t", " ", "A", "r", "g", "u", "m", "e", "n", "t", "s", "]">>
    [] OTHER -> <<"[", "o", "b", "j", "e", "c", "t", " ", "O", "b", "j", "e", "c", "t", "]">>

\* parseInt(v, 10) of a number: its decimal string's integer prefix, which for the
\* numbers kept here (in tenths) is the number truncated toward zero
parseInt(v) == IF v.num >= 0 THEN v.num \div 10 ELSE -((-v.num) \div 10)

s_eq == <<"=">>
s_and == <<"a", "n", "d">>
s_or == <<"o", "r">>
s_asc == <<"a", "s", "c">>
s_desc == <<"d", "e", "s", "c">>
s_star == <<"*">>
s_slash == <<"/">>
s_method == <<"m", "e", "t", "h", "o", "d">>
s_field == <<"f", "i", "e", "l", "d">>
s_value == <<"v", "a", "l", "u", "e">>
s_collection == <<"c", "o", "l", "l", "e", "c", "t", "i", "o", "n", "/">>

----------------------------------------------------------------------------
(* The accumulator: reset, the modifiers, buildQuery *)

\* the keys of this.options, in the order buildQuery's shortnames lists them
OptionKinds ==
  <<"paginate", "first", "aggregation", "operation", "data", "with", "select", "distinct">>

shortnames ==
  [paginate |-> "p", first |-> "f", aggregation |-> "aggr", operation |-> "op",
   data |-> "data", with |-> "with", select |-> "select", distinct |-> "distinct"]

OptionKindSet == {OptionKinds[i] : i \in DOMAIN OptionKinds}

\* `{}`: reading any key of it gives undefined
EmptyOptions == [k \in OptionKindSet |-> Undefined]

\* a fresh array: the least reference the heap does not hold
NewRef(h) == CHOOSE r \in 1..(Cardinality(DOMAIN h) + 1) :
               r \notin DOMAIN h /\ \A q \in 1..(r - 1) : q \in DOMAIN h

Alloc(h, r) == [x \in DOMAIN h \cup {r} |-> IF x = r THEN <<>> ELSE h[x]]

\* reset, were it to leave _remember out
resetKeepsRemember(c, h) ==
  LET w == NewRef(h)
      h1 == Alloc(h, w)
      o == NewRef(h1)
      h2 == Alloc(h1, o)
  IN [this |-> [c EXCEPT !.options = EmptyOptions,
                         !.wheres = ArrayRef(w),
                         !.ordering = ArrayRef(o),
                         !._group = Arr(<<>>),
                         !._limit = Null,
                         !._offset = Null],
      heap |-> h2,
      threw |-> FALSE]

\* reset, were it to empty the arrays in place (wheres.length = 0) and keep them
resetInPlace(c, h) ==
  LET fresh == c.wheres.type # "arrayref"
      w == IF fresh THEN NewRef(h) ELSE c.wheres.num
      h1 == IF fresh THEN Alloc(h, w) ELSE h
      o == IF fresh THEN NewRef(h1) ELSE c.ordering.num
      h2 == IF fresh THEN Alloc(h1, o) ELSE h1
  IN [this |-> [c EXCEPT !.options = EmptyOptions,
                         !.wheres = ArrayRef(w),
                         !.ordering = ArrayRef(o),
                         !._group = Arr(<<>>),
                         !._limit = Null,
                         !._offset = Null,
                         !._remember = Null],
      heap |-> [h2 EXCEPT ![w] = <<>>, ![o] = <<>>],
      threw |-> FALSE]

\* reset(): every field gets a fresh default; the old arrays are left as they are
reset(c, h) ==
  LET w == NewRef(h)
      h1 == Alloc(h, w)
      o == NewRef(h1)
      h2 == Alloc(h1, o)
  IN [this |-> [c EXCEPT !.options = EmptyOptions,
                         !.wheres = ArrayRef(w),
                         !.ordering = ArrayRef(o),
                         !._group = Arr(<<>>),
                         !._limit = Null,
                         !._offset = Null,
                         !._remember = Null],
      heap |-> h2,
      threw |-> FALSE]

\* addWhere: operation.toLowerCase() is a TypeError unless operation is a string
addWhere(c, h, field, operation, value, boolean) ==
  IF operation.type # "string"
  THEN [this |-> c, heap |-> h, threw |-> TRUE]
  ELSE [this |-> c,
        heap |-> [h EXCEPT ![c.wheres.num] =
                    Append(@, Arr(<<field, Str(toLowerCase(operation.str)), value, boolean>>))],
        threw |-> FALSE]

\* the properties for-in visits: an object's own ones, the indices of an array or
\* of an arguments object, none of null
OwnEntries(objects) ==
  IF objects.type = "object" THEN objects.arr
  ELSE IF objects.type \in {"array", "arguments"}
       THEN [i \in DOMAIN objects.arr |-> Prop(NumberToString((i - 1) * 10), objects.arr[i])]
       ELSE <<>>

\* objects.hasOwnProperty(field) is a TypeError on the first property visited when
\* the object has an own property hasOwnProperty that is not a function
ForInThrows(objects) ==
  HasOwn(objects, s_hasOwnProperty) /\ typeof(Own(objects, s_hasOwnProperty)) # "function"

\* the for-in loop of where: one addWhere per entry, ended by the first throw
RECURSIVE whereEntries(_, _, _, _)
whereEntries(c, h, entries, boolean) ==
  IF entries = <<>>
  THEN [this |-> c, heap |-> h, threw |-> FALSE]
  ELSE LET field == Idx(Head(entries), 0)
           entry == Idx(Head(entries), 1)
           operation == IF instanceofArray(entry) THEN Idx(entry, 0) ELSE Str(s_eq)
           value == IF instanceofArray(entry) THEN Idx(entry, 1) ELSE entry
           r == addWhere(c, h, field, operation, value, boolean)
       IN IF r.threw THEN r ELSE whereEntries(r.this, r.heap, Tail(entries), boolean)

\* where, were it to look at _operation to tell the two positional shapes apart
whereTestsOperation(c, h, objects, _operation, _value, _boolean) ==
  LET operation == IF typeof(_operation) = "undefined" THEN Str(s_eq) ELSE _operation
      boolean == IF typeof(_boolean) = "undefined" THEN Str(s_and) ELSE _boolean
  IN IF typeof(objects) = "object"
     THEN (IF ForInThrows(objects) THEN [this |-> c, heap |-> h, threw |-> TRUE]
           ELSE whereEntries(c, h, OwnEntries(objects), boolean))
     ELSE addWhere(c, h, objects, operation, _value, boolean)

where(c, h, objects, _operation, _value, _boolean) ==
  LET operation == IF typeof(_value) = "undefined" THEN Str(s_eq) ELSE _operation
      value == IF typeof(_value) = "undefined" THEN _operation ELSE _value
      boolean == IF typeof(_boolean) = "undefined" THEN Str(s_and) ELSE _boolean
  IN IF typeof(objects) = "object"
     THEN (IF ForInThrows(objects) THEN [this |-> c, heap |-> h, threw |-> TRUE]
           ELSE whereEntries(c, h, OwnEntries(objects), boolean))
     ELSE addWhere(c, h, objects, operation, value, boolean)

orWhere(c, h, objects, _operation, _value) ==
  where(c, h, objects, _operation, _value, Str(s_or))

\* the direction sort stores
sortDirection(direction) ==
  IF ~Truthy(direction) THEN Str(s_asc)
  ELSE IF typeof(direction) = "number"
       THEN (IF parseInt(direction) = -1 THEN Str(s_desc) ELSE Str(s_asc))
       ELSE direction

sort(c, h, field, direction) ==
  [this |-> c,
   heap |-> [h EXCEPT ![c.ordering.num] = Append(@, Arr(<<field, sortDirection(direction)>>))],
   threw |-> FALSE]

SetOption(c, h, kind, v) ==
  [this |-> [c EXCEPT !.options[kind] = v], heap |-> h, threw |-> FALSE]

select(c, h, args) == SetOption(c, h, "select", Arguments(args))

\* join, were the relations of an earlier call kept and the new ones added to them
joinCumulative(c, h, args) ==
  SetOption(c, h, "with",
            Arguments((IF c.options["with"].type = "arguments" THEN c.options["with"].arr
                                                             ELSE <<>>) \o args))

join(c, h, args) == SetOption(c, h, "with", Arguments(args))

distinct(c, h) == SetOption(c, h, "distinct", True)

group(c, h, args) == [this |-> [c EXCEPT !._group = Arguments(args)], heap |-> h, threw |-> FALSE]

limit(c, h, int) == [this |-> [c EXCEPT !._limit = int], heap |-> h, threw |-> FALSE]

offset(c, h, int) == [this |-> [c EXCEPT !._offset = int], heap |-> h, threw |-> FALSE]

remember(c, h, minutes) ==
  [this |-> [c EXCEPT !._remember = minutes], heap |-> h, threw |-> FALSE]

\* .length of an array, an arguments object or an array held by reference
Length(h, v) == IF v.type = "arrayref" THEN Len(h[v.num]) ELSE Len(v.arr)

\* the keys of query, were limit, offset and remember tested like the options
QueryKeysTruthy(c, h) ==
  {k \in {"limit"} : Truthy(c._limit)}
    \cup {k \in {"offset"} : Truthy(c._offset)}
    \cup {k \in {"remember"} : Truthy(c._remember)}
    \cup {k \in {"q"} : Length(h, c.wheres) > 0}
    \cup {k \in {"s"} : Length(h, c.ordering) > 0}
    \cup {k \in {"g"} : Length(h, c._group) > 0}
    \cup {shortnames[f] : f \in {x \in OptionKindSet : Truthy(c.options[x])}}

\* the keys buildQuery puts into query
QueryKeys(c, h) ==
  {k \in {"limit"} : c._limit.type # "null"}
    \cup {k \in {"offset"} : c._offset.type # "null"}
    \cup {k \in {"remember"} : c._remember.type # "null"}
    \cup {k \in {"q"} : Length(h, c.wheres) > 0}
    \cup {k \in {"s"} : Length(h, c.ordering) > 0}
    \cup {k \in {"g"} : Length(h, c._group) > 0}
    \cup {shortnames[f] : f \in {x \in OptionKindSet : Truthy(c.options[x])}}

QueryValue(c, k) ==
  CASE k = "limit" -> c._limit
    [] k = "offset" -> c._offset
    [] k = "remember" -> c._remember
    [] k = "q" -> c.wheres
    [] k = "s" -> c.ordering
    [] k = "g" -> c._group
    [] OTHER -> c.options[CHOOSE f \in OptionKindSet : shortnames[f] = k]

\* buildQuery, were it to leave the reset to a later moment
buildQueryKeepsState(c, h) ==
  [query |-> [k \in QueryKeys(c, h) |-> QueryValue(c, k)], this |-> c, heap |-> h]

\* buildQuery(): the query object, then reset()
buildQuery(c, h) ==
  LET query == [k \in QueryKeys(c, h) |-> QueryValue(c, k)]
      r == reset(c, h)
  IN [query |-> query, this |-> r.this, heap |-> r.heap]

\* a value with the arrays it holds by reference read out of the heap
Deref(h, v) == IF v.type = "arrayref" THEN Arr(h[v.num]) ELSE v

\* a query object with its arrays read out of the heap
Contents(h, query) == [k \in DOMAIN query |-> Deref(h, query[k])]

----------------------------------------------------------------------------
(* Construction *)

NameChars ==
  {"a", "b", "c", "d", "e", "f", "g", "h", "i", "j", "k", "l", "m", "n", "o", "p", "q",
   "r", "s", "t", "u", "v", "w", "x", "y", "z", "_", "/",
   "0", "1", "2", "3", "4", "5", "6", "7", "8", "9"}

\* _validateName, were the pattern /^[a-z_\/0-9]*$/, which the empty name matches
validateNameOrEmpty(name) ==
  LET str == JSToString(name)
  IN ~ToStringThrows(name) /\ \A i \in DOMAIN str : str[i] \in NameChars

\* /^[a-z_\/0-9]+$/.test(name): whether the constructor accepts the name; test
\* converts the name to a string first, and a name that cannot be converted throws
_validateName(name) ==
  LET str == JSToString(name)
  IN ~ToStringThrows(name) /\ str # <<>> /\ \A i \in DOMAIN str : str[i] \in NameChars

NoFields ==
  [name |-> Undefined, segments |-> <<>>, options |-> EmptyOptions,
   wheres |-> Undefined, ordering |-> Undefined, _group |-> Undefined,
   _limit |-> Undefined, _offset |-> Undefined, _remember |-> Undefined]

\* the constructor, were the clause and order arrays kept in one place for all
\* builders (on the prototype) and only the other fields set per instance
constructorSharedArrays(h, name) ==
  IF ~_validateName(name)
  THEN [this |-> NoFields, heap |-> h, threw |-> TRUE]
  ELSE LET r == reset([NoFields EXCEPT !.name = name], h)
           shared == {1, 2} \subseteq DOMAIN h
       IN [this |-> [r.this EXCEPT !.segments = s_collection \o JSToString(name),
                                   !.wheres = IF shared THEN ArrayRef(1) ELSE @,
                                   !.ordering = IF shared THEN ArrayRef(2) ELSE @],
           heap |-> r.heap,
           threw |-> FALSE]

\* new Collection(client, name)
constructor(h, name) ==
  IF ~_validateName(name)
  THEN [this |-> NoFields, heap |-> h, threw |-> TRUE]
  ELSE LET r == reset([NoFields EXCEPT !.name = name], h)
       IN [this |-> [r.this EXCEPT !.segments = s_collection \o JSToString(name)],
           heap |-> r.heap,
           threw |-> FALSE]

----------------------------------------------------------------------------
(* The transport and the terminal methods *)

\* the accumulator as a value: the fields reset() sets, arrays read out of the heap
Accumulator(c, h) ==
  [options |-> c.options, wheres |-> Deref(h, c.wheres), ordering |-> Deref(h, c.ordering),
   _group |-> c._group, _limit |-> c._limit, _offset |-> c._offset,
   _remember |-> c._remember]

\* the i-th argument of a call (0-based); undefined when it was not passed
Arg(args, i) == IF i + 1 <= Len(args) THEN args[i + 1] ELSE Undefined

NoQuery == [k \in {} |-> Undefined]

\* this.client.<verb>(path, ...): the request the transport is handed, with the
\* contents of its query and the accumulator of the caller at that moment.
\* kind says what comes with the path: a query object, a raw payload, or nothing.
clientCall(verb, path, kind, query, payload, c, h) ==
  [verb |-> verb, path |-> path, kind |-> kind, query |-> query, payload |-> payload,
   sent |-> Contents(h, query), atInvoke |-> Accumulator(c, h),
   thens |-> <<>>, state |-> "pending"]

Outcome(c, h, req) == [this |-> c, heap |-> h, threw |-> FALSE, reqs |-> <<req>>]

\* promise.then.apply(promise, args) on the request an outcome holds
Then(r, args) == [r EXCEPT !.reqs[1].thens = Append(@, args)]

create(c, h, data) ==
  Outcome(c, h, clientCall("post", c.segments, "payload", NoQuery, data, c, h))

\* get, were the accumulator reset when the request settles, not before it is sent
getResetsLater(c, h) ==
  LET q == buildQuery(c, h)
  IN Outcome(c, q.heap, clientCall("get", c.segments, "query", q.query, Undefined, c, q.heap))

get(c, h) ==
  LET q == buildQuery(c, h)
  IN Outcome(q.this, q.heap,
             clientCall("get", c.segments, "query", q.query, Undefined, q.this, q.heap))

\* a call that throws before it reaches the transport
Thrown(c, h) == [this |-> c, heap |-> h, threw |-> TRUE, reqs |-> <<>>]

\* find: the path is put together first, so an id that cannot be converted to a
\* string throws before buildQuery and before the request
find(c, h, args) ==
  LET q == buildQuery(c, h)
      r == Outcome(q.this, q.heap,
                   clientCall("get", c.segments \o s_slash \o JSToString(Arg(args, 0)),
                              "query", q.query, Undefined, q.this, q.heap))
  IN IF ToStringThrows(Arg(args, 0)) THEN Thrown(c, h)
     ELSE IF Len(args) > 1 THEN Then(r, Tail(args)) ELSE r

Aggregation(method, field) ==
  Obj(<<Prop(s_method, Str(method)), Prop(s_field, field)>>)

\* count, were the field left as it was given
countFieldAsGiven(c, h, args) ==
  LET c1 == [c EXCEPT !.options["aggregation"] =
                        Aggregation(<<"c", "o", "u", "n", "t">>, Arg(args, 0))]
      r == get(c1, h)
  IN IF Len(args) > 0 THEN Then(r, args) ELSE r

count(c, h, args) ==
  LET field == IF typeof(Arg(args, 0)) = "undefined" THEN Str(s_star) ELSE Arg(args, 0)
      c1 == [c EXCEPT !.options["aggregation"] =
                        Aggregation(<<"c", "o", "u", "n", "t">>, field)]
      r == get(c1, h)
  IN IF Len(args) > 0 THEN Then(r, args) ELSE r

\* max, min, avg and sum differ in the method name only
aggregate(c, h, method, args) ==
  LET c1 == [c EXCEPT !.options["aggregation"] = Aggregation(method, Arg(args, 0))]
      r == get(c1, h)
  IN IF Len(args) > 1 THEN Then(r, Tail(args)) ELSE r

max(c, h, args) == aggregate(c, h, <<"m", "a", "x">>, args)

min(c, h, args) == aggregate(c, h, <<"m", "i", "n">>, args)

avg(c, h, args) == aggregate(c, h, <<"a", "v", "g">>, args)

sum(c, h, args) == aggregate(c, h, <<"s", "u", "m">>, args)

first(c, h, args) ==
  Then(get([c EXCEPT !.options["first"] = Num(1)], h), args)

firstOrCreate(c, h, data) ==
  LET c1 == [c EXCEPT !.options["first"] = Num(1), !.options["data"] = data]
      q == buildQuery(c1, h)
  IN Outcome(q.this, q.heap,
             clientCall("post", c.segments, "query", q.query, Undefined, q.this, q.heap))

then(c, h, args) == Then(get(c, h), args)

\* each(cb): then() with the function that applies cb to every row
each(c, h, cb) == then(c, h, <<Fn(<<"e", "a", "c", "h">>)>>)

\* the properties of console that are functions, which debug can bind: the
\* methods of the Console standard, the further functions the host (Node 20) puts on
\* console, and the functions every object inherits from Object.prototype
ConsoleMethods ==
  {<<"a", "s", "s", "e", "r", "t">>,
   <<"c", "l", "e", "a", "r">>,
   <<"c", "o", "u", "n", "t">>,
   <<"c", "o", "u", "n", "t", "R", "e", "s", "e", "t">>,
   <<"d", "e", "b", "u", "g">>,
   <<"d", "i", "r">>,
   <<"d", "i", "r", "x", "m", "l">>,
   <<"e", "r", "r", "o", "r">>,
   <<"i", "n", "f", "o">>,
   <<"l", "o", "g">>,
   <<"t", "a", "b", "l", "e">>,
   <<"t", "r", "a", "c", "e">>,
   <<"w", "a", "r", "n">>,
   <<"g", "r", "o", "u", "p">>,
   <<"g", "r", "o", "u", "p", "C", "o", "l", "l", "a", "p", "s", "e", "d">>,
   <<"g", "r", "o", "u", "p", "E", "n", "d">>,
   <<"t", "i", "m", "e">>,
   <<"t", "i", "m", "e", "L", "o", "g">>,
   <<"t", "i", "m", "e", "E", "n", "d">>}
    \cup
  {<<"p", "r", "o", "f", "i", "l", "e">>,
   <<"p", "r", "o", "f", "i", "l", "e", "E", "n", "d">>,
   <<"t", "i", "m", "e", "S", "t", "a", "m", "p">>,
   <<"c", "o", "n", "t", "e", "x", "t">>,
   <<"C", "o", "n", "s", "o", "l", "e">>,
   <<"c", "r", "e", "a", "t", "e", "T", "a", "s", "k">>,
   <<"_", "s", "t", "d", "o", "u", "t", "E", "r", "r", "o", "r", "H", "a", "n", "d", "l", "e", "r">>,
   <<"_", "s", "t", "d", "e", "r", "r", "E", "r", "r", "o", "r", "H", "a", "n", "d", "l", "e", "r">>}
    \cup
  {<<"c", "o", "n", "s", "t", "r", "u", "c", "t", "o", "r">>,
   <<"h", "a", "s", "O", "w", "n", "P", "r", "o", "p", "e", "r", "t", "y">>,
   <<"i", "s", "P", "r", "o", "t", "o", "t", "y", "p", "e", "O", "f">>,
   <<"p", "r", "o", "p", "e", "r", "t", "y", "I", "s", "E", "n", "u", "m", "e", "r", "a", "b", "l", "e">>,
   <<"t", "o", "L", "o", "c", "a", "l", "e", "S", "t", "r", "i", "n", "g">>,
   <<"t", "o", "S", "t", "r", "i", "n", "g">>,
   <<"v", "a", "l", "u", "e", "O", "f">>,
   <<"_", "_", "d", "e", "f", "i", "n", "e", "G", "e", "t", "t", "e", "r", "_", "_">>,
   <<"_", "_", "d", "e", "f", "i", "n", "e", "S", "e", "t", "t", "e", "r", "_", "_">>,
   <<"_", "_", "l", "o", "o", "k", "u", "p", "G", "e", "t", "t", "e", "r", "_", "_">>,
   <<"_", "_", "l", "o", "o", "k", "u", "p", "S", "e", "t", "t", "e", "r", "_", "_">>}

\* debug(func): then() with console[func], "log" when func is not given; func is
\* converted to a property key, and binding a property console does not have is a
\* TypeError before anything is sent
debug(c, h, func) ==
  LET f == IF typeof(func) = "undefined" THEN Str(<<"l", "o", "g">>) ELSE func
  IN IF ~ToStringThrows(f) /\ JSToString(f) \in ConsoleMethods
     THEN then(c, h, <<Fn(JSToString(f))>>)
     ELSE [this |-> c, heap |-> h, threw |-> TRUE, reqs |-> <<>>]

\* Hook.defaults.perPage, which this file reads and does not set
Hook_defaults_perPage == Num(50)

\* paginate: without onComplete the first argument is taken for the callback
paginate(c, h, perPage, onComplete, onError) ==
  LET pp == IF ~Truthy(onComplete) THEN Hook_defaults_perPage ELSE perPage
      c1 == [c EXCEPT !.options["paginate"] = pp]
  IN then(c1, h, <<Fn(<<"p", "a", "g", "i", "n", "a", "t", "e">>), onError>>)

drop(c, h) ==
  Outcome(c, h, clientCall("remove", c.segments, "none", NoQuery, Undefined, c, h))

\* remove, were it to leave the id out of the path
removeBarePath(c, h, _id) ==
  LET q == buildQuery(c, h)
  IN IF ToStringThrows(_id) THEN Thrown(c, h)
     ELSE Outcome(q.this, q.heap,
                  clientCall("remove", c.segments, "query", q.query, Undefined, q.this, q.heap))

remove(c, h, _id) ==
  LET path == IF typeof(_id) # "undefined" THEN c.segments \o s_slash \o JSToString(_id)
                                           ELSE c.segments
      q == buildQuery(c, h)
  IN IF ToStringThrows(_id) THEN Thrown(c, h)
     ELSE Outcome(q.this, q.heap,
                  clientCall("remove", path, "query", q.query, Undefined, q.this, q.heap))

update(c, h, _id, data) ==
  IF ToStringThrows(_id) THEN Thrown(c, h)
  ELSE Outcome(c, h, clientCall("post", c.segments \o s_slash \o JSToString(_id),
                                "payload", NoQuery, data, c, h))

Operation(method, field, value) ==
  Obj(<<Prop(s_method, Str(method)), Prop(s_field, field), Prop(s_value, value)>>)

\* increment and decrement differ in the method name only
operate(c, h, method, args) ==
  LET c1 == [c EXCEPT !.options["operation"] = Operation(method, Arg(args, 0), Arg(args, 1))]
      q == buildQuery(c1, h)
      r == Outcome(q.this, q.heap,
                   clientCall("put", c.segments, "query", q.query, Undefined, q.this, q.heap))
  IN IF Len(args) > 0 THEN Then(r, args) ELSE r

increment(c, h, args) ==
  operate(c, h, <<"i", "n", "c", "r", "e", "m", "e", "n", "t">>, args)

decrement(c, h, args) ==
  operate(c, h, <<"d", "e", "c", "r", "e", "m", "e", "n", "t">>, args)

\* updateAll, were the payload sent without the filters accumulated before
updateAllWithoutFilters(c, h, data) ==
  LET r == reset(c, h)
      q == buildQuery([r.this EXCEPT !.options["data"] = data], r.heap)
  IN Outcome(q.this, q.heap,
             clientCall("put", c.segments, "query", q.query, Undefined, q.this, q.heap))

updateAll(c, h, data) ==
  LET q == buildQuery([c EXCEPT !.options["data"] = data], h)
  IN Outcome(q.this, q.heap,
             clientCall("put", c.segments, "query", q.query, Undefined, q.this, q.heap))

\* channel, were it to clear the accumulator before it throws
channelAfterReset(c, h) ==
  LET r == reset(c, h)
  IN [this |-> r.this, heap |-> r.heap, threw |-> TRUE, reqs |-> <<>>]

\* channel(): throws before doing anything
channel(c, h) == [this |-> c, heap |-> h, threw |-> TRUE, reqs |-> <<>>]

----------------------------------------------------------------------------
(* The calls a program makes on its builders *)

\* the arrays still referenced by a builder or by a request's query
Live(cs, cl) ==
  {cs[b].wheres.num : b \in DOMAIN cs} \cup {cs[b].ordering.num : b \in DOMAIN cs}
    \cup UNION {{cl[i].query[k].num : k \in {x \in DOMAIN cl[i].query :
                                               cl[i].query[x].type = "arrayref"}} :
                i \in DOMAIN cl}

\* what a call returns: the builder it was made on, the deferred result of a request,
\* a query object, a pagination object, or nothing when the call throws
Builder(b) == [kind |-> "builder", id |-> b]

Promise(i) == [kind |-> "promise", id |-> i]

\* what promise.then(...) returned for request i: a value the transport's deferred
\* makes, which need not be the promise itself
PromiseThen(i) == [kind |-> "promise.then", id |-> i]

QueryObject == [kind |-> "query", id |-> 0]

Pagination == [kind |-> "pagination", id |-> 0]

Nothing == [kind |-> "nothing", id |-> 0]

\* one call of method `name` with arguments `args` on builder b: its outcome r,
\* the requests reqs it handed to the transport, the query ret it returned (if any)
Step(b, name, args, r, reqs, ret, value) ==
  LET newCols == [cols EXCEPT ![b] = r.this]
      newClient == client \o [i \in DOMAIN reqs |->
                                reqs[i] @@ [b |-> b, call |-> name, args |-> args,
                                            step |-> Len(history) + 1]]
  IN /\ cols' = newCols
     /\ client' = newClient
     /\ heap' = [x \in Live(newCols, newClient) |-> r.heap[x]]
     /\ history' = Append(history, [b |-> b, call |-> name, args |-> args,
                                    threw |-> r.threw, ret |-> ret,
                                    returned |-> IF r.threw THEN Nothing ELSE value])

\* `return this`
Modify(b, name, args, r) == Step(b, name, args, r, <<>>, NoQuery, Builder(b))

\* `return promise`, the deferred result of the request the call has just made
Terminal(b, name, args, r) ==
  Step(b, name, args, r, r.reqs, NoQuery, Promise(Len(client) + Len(r.reqs)))

Where(S) ==
  \E b \in DOMAIN cols, args \in S :
    Modify(b, "where", args,
           where(cols[b], heap, Arg(args, 0), Arg(args, 1), Arg(args, 2), Arg(args, 3)))

\* addWhere is a public method too: a program can call it without where
AddWhere(S) ==
  \E b \in DOMAIN cols, args \in S :
    Modify(b, "addWhere", args,
           addWhere(cols[b], heap, Arg(args, 0), Arg(args, 1), Arg(args, 2), Arg(args, 3)))

OrWhere(S) ==
  \E b \in DOMAIN cols, args \in S :
    Modify(b, "orWhere", args,
           orWhere(cols[b], heap, Arg(args, 0), Arg(args, 1), Arg(args, 2)))

Sort(S) ==
  \E b \in DOMAIN cols, args \in S :
    Modify(b, "sort", args, sort(cols[b], heap, Arg(args, 0), Arg(args, 1)))

Select(S) ==
  \E b \in DOMAIN cols, args \in S : Modify(b, "select", args, select(cols[b], heap, args))

Join(S) ==
  \E b \in DOMAIN cols, args \in S : Modify(b, "join", args, join(cols[b], heap, args))

Group(S) ==
  \E b \in DOMAIN cols, args \in S : Modify(b, "group", args, group(cols[b], heap, args))

Distinct ==
  \E b \in DOMAIN cols : Modify(b, "distinct", <<>>, distinct(cols[b], heap))

Limit(S) ==
  \E b \in DOMAIN cols, args \in S :
    Modify(b, "limit", args, limit(cols[b], heap, Arg(args, 0)))

Offset(S) ==
  \E b \in DOMAIN cols, args \in S :
    Modify(b, "offset", args, offset(cols[b], heap, Arg(args, 0)))

Remember(S) ==
  \E b \in DOMAIN cols, args \in S :
    Modify(b, "remember", args, remember(cols[b], heap, Arg(args, 0)))

Reset ==
  \E b \in DOMAIN cols : Modify(b, "reset", <<>>, reset(cols[b], heap))

\* buildQuery() called on the builder itself: the query is returned to the caller
BuildQuery ==
  \E b \in DOMAIN cols :
    LET q == buildQuery(cols[b], heap)
    IN Step(b, "buildQuery", <<>>, [this |-> q.this, heap |-> q.heap, threw |-> FALSE],
            <<>>, Contents(q.heap, q.query), QueryObject)

Create(S) ==
  \E b \in DOMAIN cols, args \in S :
    Terminal(b, "create", args, create(cols[b], heap, Arg(args, 0)))

Get ==
  \E b \in DOMAIN cols : Terminal(b, "get", <<>>, get(cols[b], heap))

\* find(id) returns the request's promise, find(id, ...) what promise.then returned
Find(S) ==
  \E b \in DOMAIN cols, args \in S :
    LET r == find(cols[b], heap, args)
    IN Step(b, "find", args, r, r.reqs, NoQuery,
            IF Len(args) > 1 THEN PromiseThen(Len(client) + Len(r.reqs))
                             ELSE Promise(Len(client) + Len(r.reqs)))

Count(S) ==
  \E b \in DOMAIN cols, args \in S : Terminal(b, "count", args, count(cols[b], heap, args))

Max(S) ==
  \E b \in DOMAIN cols, args \in S : Terminal(b, "max", args, max(cols[b], heap, args))

Min(S) ==
  \E b \in DOMAIN cols, args \in S : Terminal(b, "min", args, min(cols[b], heap, args))

Avg(S) ==
  \E b \in DOMAIN cols, args \in S : Terminal(b, "avg", args, avg(cols[b], heap, args))

Sum(S) ==
  \E b \in DOMAIN cols, args \in S : Terminal(b, "sum", args, sum(cols[b], heap, args))

First(S) ==
  \E b \in DOMAIN cols, args \in S : Terminal(b, "first", args, first(cols[b], heap, args))

FirstOrCreate(S) ==
  \E b \in DOMAIN cols, args \in S :
    Terminal(b, "firstOrCreate", args, firstOrCreate(cols[b], heap, Arg(args, 0)))

Each(S) ==
  \E b \in DOMAIN cols, args \in S :
    Terminal(b, "each", args, each(cols[b], heap, Arg(args, 0)))

ThenCall(S) ==
  \E b \in DOMAIN cols, args \in S : Terminal(b, "then", args, then(cols[b], heap, args))

Debug(S) ==
  \E b \in DOMAIN cols, args \in S :
    Terminal(b, "debug", args, debug(cols[b], heap, Arg(args, 0)))

Paginate(S) ==
  \E b \in DOMAIN cols, args \in S :
    LET r == paginate(cols[b], heap, Arg(args, 0), Arg(args, 1), Arg(args, 2))
    IN Step(b, "paginate", args, r, r.reqs, NoQuery, Pagination)

Drop ==
  \E b \in DOMAIN cols : Terminal(b, "drop", <<>>, drop(cols[b], heap))

Remove(S) ==
  \E b \in DOMAIN cols, args \in S :
    Terminal(b, "remove", args, remove(cols[b], heap, Arg(args, 0)))

Update(S) ==
  \E b \in DOMAIN cols, args \in S :
    Terminal(b, "update", args, update(cols[b], heap, Arg(args, 0), Arg(args, 1)))

Increment(S) ==
  \E b \in DOMAIN cols, args \in S :
    Terminal(b, "increment", args, increment(cols[b], heap, args))

Decrement(S) ==
  \E b \in DOMAIN cols, args \in S :
    Terminal(b, "decrement", args, decrement(cols[b], heap, args))

UpdateAll(S) ==
  \E b \in DOMAIN cols, args \in S :
    Terminal(b, "updateAll", args, updateAll(cols[b], heap, Arg(args, 0)))

Channel ==
  \E b \in DOMAIN cols : Terminal(b, "channel", <<>>, channel(cols[b], heap))

\* new Collection(client, name): a further builder, or an error and no builder
Construct(S) ==
  \E name \in S :
    LET r == constructor(heap, name)
        b == Len(cols) + 1
        newCols == IF r.threw THEN cols ELSE Append(cols, r.this)
    IN /\ cols' = newCols
       /\ client' = client
       /\ heap' = [x \in Live(newCols, client) |-> r.heap[x]]
       /\ history' = Append(history, [b |-> b, call |-> "constructor", args |-> <<name>>,
                                      threw |-> r.threw, ret |-> NoQuery,
                                      returned |-> IF r.threw THEN Nothing ELSE Builder(b)])

\* the transport settles a pending request: its deferred result resolves or is
\* rejected and the continuations given to then run; none of them is a method of
\* the builder
Settle ==
  \E i \in DOMAIN client, outcome \in {"resolved", "rejected"} :
    /\ client[i].state = "pending"
    /\ client' = [client EXCEPT ![i].state = outcome]
    /\ UNCHANGED <<cols, heap, history>>

----------------------------------------------------------------------------
(* The state after construction *)

s_a == <<"a">>
s_b == <<"b">>
s_x == <<"x">>
s_y == <<"y">>
s_gt == <<">">>
s_like == <<"l", "i", "k", "e">>
s_LIKE == <<"L", "I", "K", "E">>
s_posts == <<"p", "o", "s", "t", "s">>
s_author == <<"a", "u", "t", "h", "o", "r">>
s_title == <<"t", "i", "t", "l", "e">>
s_updated_at == <<"u", "p", "d", "a", "t", "e", "d", "_", "a", "t">>

NoHeap == [x \in {} |-> <<>>]

\* one builder, client.collection('posts')
Init ==
  LET r == constructor(NoHeap, Str(s_posts))
  IN /\ cols = [b \in {1} |-> r.this]
     /\ heap = r.heap
     /\ client = <<>>
     /\ history = <<>>

steps == Len(history)

\* an action step that is a call (a step of the transport is not one)
Called == Len(history') = Len(history) + 1

\* the call a step makes
TheCall == history'[Len(history')]

\* the clause list and the ordering of builder b, read out of the heap
Clauses(b) == heap[cols[b].wheres.num]

Ordering(b) == heap[cols[b].ordering.num]

----------------------------------------------------------------------------
(* SpecWhere: where and orWhere in every shape of call *)

MaxWhereSteps == 2

WhereFields == {Str(s_a), Str(s_b)}
WhereValues == {Num(1), Str(s_LIKE), Null}
WhereOperators == {Str(s_eq), Str(s_gt), Str(s_LIKE)}

WhereMaps ==
  {Obj(<<>>),
   Obj(<<Prop(s_a, Num(1))>>),
   Obj(<<Prop(s_a, Num(1)), Prop(s_b, Arr(<<Str(s_gt), Num(2)>>))>>),
   Obj(<<Prop(s_b, Arr(<<Str(s_LIKE), Str(s_x)>>)), Prop(s_a, Null)>>),
   Obj(<<Prop(s_a, Num(1)), Prop(s_b, Arr(<<Num(3), Num(2)>>))>>),
   Arguments(<<Str(s_x), Arr(<<Str(s_gt), Num(2)>>)>>),
   Obj(<<Prop(s_a, Num(1)), Prop(s_hasOwnProperty, Num(1))>>)}

PositionalWhereCalls ==
  {<<f>> : f \in WhereFields}
    \cup {<<f, v>> : f \in WhereFields, v \in WhereValues}
    \cup {<<f, op, v>> : f \in WhereFields, op \in WhereOperators, v \in WhereValues}
    \cup {<<Str(s_a), Num(3), Num(1)>>, <<Str(s_a), Str(s_gt), Undefined>>}

AllWhereCalls ==
  PositionalWhereCalls
    \cup {<<m>> : m \in WhereMaps}
    \cup {<<Null>>, <<Str(s_a), Str(s_gt), Num(1), Str(s_or)>>,
          <<Str(s_a), Str(s_gt), Num(1), Str(s_x)>>}

AllOrWhereCalls ==
  {<<Str(s_a), Num(1)>>, <<Str(s_b), Str(s_LIKE), Str(s_x)>>, <<Str(s_a), Num(3), Num(1)>>}
    \cup {<<m>> : m \in WhereMaps}

NextWhere ==
  \/ steps < MaxWhereSteps /\ Where(AllWhereCalls)
  \/ steps < MaxWhereSteps /\ OrWhere(AllOrWhereCalls)

SpecWhere == Init /\ [][NextWhere]_vars

----------------------------------------------------------------------------
(* SpecSort: sort with every kind of direction *)

MaxSortSteps == 2

SortFields == {Str(s_x), Str(s_y)}
SortDirections ==
  {Undefined, Null, Num(0), Num(1), Num(-1), Num(2), Num(-2), Tenths(-15), Tenths(-5),
   Tenths(15), Str(<<>>), Str(s_desc), Str(s_asc), Str(<<"D", "E", "S", "C">>), True}

AllSortCalls ==
  {<<f>> : f \in SortFields} \cup {<<f, d>> : f \in SortFields, d \in SortDirections}

NextSort == steps < MaxSortSteps /\ Sort(AllSortCalls)

SpecSort == Init /\ [][NextSort]_vars

----------------------------------------------------------------------------
(* SpecCompile: the modifiers and buildQuery *)

MaxCompileSteps == 4

NextCompile ==
  \/ steps < MaxCompileSteps /\ Where({<<Str(s_a), Num(1)>>})
  \/ steps < MaxCompileSteps /\ Sort({<<Str(s_updated_at), Num(-1)>>})
  \/ steps < MaxCompileSteps /\ Select({<<>>, <<Str(s_a)>>})
  \/ steps < MaxCompileSteps /\ Join({<<Str(s_author)>>})
  \/ steps < MaxCompileSteps /\ Group({<<>>, <<Str(s_a)>>})
  \/ steps < MaxCompileSteps /\ Distinct
  \/ steps < MaxCompileSteps /\ Limit({<<Num(5)>>, <<Num(0)>>, <<>>})
  \/ steps < MaxCompileSteps /\ Offset({<<Num(5)>>})
  \/ steps < MaxCompileSteps /\ Remember({<<Num(10)>>})
  \/ steps < MaxCompileSteps /\ BuildQuery

SpecCompile == Init /\ [][NextCompile]_vars

----------------------------------------------------------------------------
(* Spec: every method of the builder, the requests left pending *)

MaxSteps == 3

Data == Obj(<<Prop(s_title, Str(s_x))>>)

Callback == Fn(<<"c", "b">>)

Next ==
  \/ steps < MaxSteps /\ Where({<<Str(s_a), Num(1)>>,
                                 <<Obj(<<Prop(s_a, Num(1)), Prop(s_hasOwnProperty, Num(1))>>)>>})
  \/ steps < MaxSteps /\ OrWhere({<<Str(s_b), Num(2)>>})
  \/ steps < MaxSteps /\ AddWhere({<<Str(s_b), Str(s_LIKE), Num(2), Str(s_x)>>})
  \/ steps < MaxSteps /\ Sort({<<Str(s_x)>>})
  \/ steps < MaxSteps /\ Select({<<Str(s_a)>>})
  \/ steps < MaxSteps /\ Join({<<Str(s_author)>>})
  \/ steps < MaxSteps /\ Group({<<Str(s_a)>>})
  \/ steps < MaxSteps /\ Distinct
  \/ steps < MaxSteps /\ Limit({<<Num(5)>>})
  \/ steps < MaxSteps /\ Offset({<<Num(5)>>})
  \/ steps < MaxSteps /\ Remember({<<Num(10)>>})
  \/ steps < MaxSteps /\ Reset
  \/ steps < MaxSteps /\ Create({<<Data>>})
  \/ steps < MaxSteps /\ Get
  \/ steps < MaxSteps /\ Find({<<Num(7)>>})
  \/ steps < MaxSteps /\ Count({<<>>})
  \/ steps < MaxSteps /\ Max({<<Str(s_a)>>})
  \/ steps < MaxSteps /\ Min({<<Str(s_a)>>})
  \/ steps < MaxSteps /\ Avg({<<Str(s_a)>>})
  \/ steps < MaxSteps /\ Sum({<<Str(s_a)>>})
  \/ steps < MaxSteps /\ First({<<Callback>>})
  \/ steps < MaxSteps /\ FirstOrCreate({<<Data>>})
  \/ steps < MaxSteps /\ Each({<<Callback>>})
  \/ steps < MaxSteps /\ ThenCall({<<Callback>>})
  \/ steps < MaxSteps /\ Debug({<<>>, <<Str(s_x)>>})
  \/ steps < MaxSteps /\ Paginate({<<Callback>>, <<Num(20)>>, <<Num(20), Callback>>})
  \/ steps < MaxSteps /\ Drop
  \/ steps < MaxSteps /\ Remove({<<>>, <<Num(7)>>})
  \/ steps < MaxSteps /\ Update({<<Num(7), Data>>})
  \/ steps < MaxSteps /\ Increment({<<Str(s_a), Num(1)>>})
  \/ steps < MaxSteps /\ Decrement({<<Str(s_a), Num(1)>>})
  \/ steps < MaxSteps /\ UpdateAll({<<Data>>})
  \/ steps < MaxSteps /\ Channel

Spec == Init /\ [][Next]_vars

----------------------------------------------------------------------------
(* SpecAsync: calls interleaved with the transport settling the requests *)

MaxAsyncSteps == 3

NextAsync ==
  \/ steps < MaxAsyncSteps /\ Where({<<Str(s_a), Num(1)>>})
  \/ steps < MaxAsyncSteps /\ Limit({<<Num(5)>>})
  \/ steps < MaxAsyncSteps /\ Get
  \/ steps < MaxAsyncSteps /\ First({<<Callback>>})
  \/ steps < MaxAsyncSteps /\ Paginate({<<Num(20), Callback>>})
  \/ steps < MaxAsyncSteps /\ Create({<<Data>>})
  \/ steps < MaxAsyncSteps /\ Remove({<<>>, <<Num(7)>>})
  \/ Settle

SpecAsync == Init /\ [][NextAsync]_vars

----------------------------------------------------------------------------
(* Properties of where, orWhere and sort *)

IsString(v) == v.type = "string"

Defined(v) == v.type # "undefined"

\* the clause [field, operator, value, combinator]
Clause(field, operator, value, combinator) ==
  Arr(<<field, Str(operator), value, Str(combinator)>>)

\* the lower-case spelling of the operators the calls are made with
Lowered(s) == IF s = s_LIKE THEN s_like ELSE s

\* C8: where(f, v) and where(f, "=", v) with a field name f and a value v append the
\* one clause [f, "=", v, "and"], and where(f, op, v) appends [f, lowercase(op), v,
\* "and"]; the clauses already in the list stay as they are, in order.  (A value is
\* an argument that was passed: undefined stands for an argument left out.)
C8_WhereAppendsOneClause ==
  [][\A b \in DOMAIN cols :
       (Called /\ TheCall.call = "where" /\ TheCall.b = b) =>
         LET a == TheCall.args
         IN /\ (Len(a) = 2 /\ IsString(a[1]) /\ Defined(a[2])) =>
                 Clauses(b)' = Append(Clauses(b), Clause(a[1], s_eq, a[2], s_and))
            /\ (Len(a) = 3 /\ IsString(a[1]) /\ IsString(a[2]) /\ Defined(a[3])) =>
                 Clauses(b)' = Append(Clauses(b),
                                      Clause(a[1], Lowered(a[2].str), a[3], s_and))]_vars

\* C8 witness: after a first clause, where("b", "LIKE", 1) has added a second one
C8_Witness ==
  /\ Len(history) = 2
  /\ history[2].call = "where"
  /\ history[2].args = <<Str(s_b), Str(s_LIKE), Num(1)>>
  /\ Len(Clauses(1)) = 2
  /\ Clauses(1)[2] = Clause(Str(s_b), s_like, Num(1), s_and)

\* a call of where or orWhere with a map whose [operator, value] pairs all hold a
\* string operator
IsMapCall(c) ==
  /\ c.call \in {"where", "orWhere"}
  /\ Len(c.args) = 1
  /\ c.args[1].type = "object"
  /\ \A i \in DOMAIN c.args[1].arr :
       LET e == c.args[1].arr[i].arr[2]
       IN e.type = "array" => (Len(e.arr) = 2 /\ IsString(e.arr[1]))

Combinator(c) == IF c.call = "orWhere" THEN s_or ELSE s_and

\* one clause per map entry, in entry order, the operators lower-cased
ClausesLowered(c) ==
  [i \in DOMAIN c.args[1].arr |->
     LET k == c.args[1].arr[i].arr[1]
         e == c.args[1].arr[i].arr[2]
     IN IF e.type = "array"
        THEN Clause(k, Lowered(e.arr[1].str), e.arr[2], Combinator(c))
        ELSE Clause(k, s_eq, e, Combinator(c))]

\* orWhere gives "or" to every clause it appends and leaves the stored ones alone
OrWhereForcesOr ==
  \A b \in DOMAIN cols :
    (Called /\ TheCall.call = "orWhere" /\ TheCall.b = b) =>
      /\ Len(Clauses(b)') >= Len(Clauses(b))
      /\ \A i \in DOMAIN Clauses(b)' :
           IF i <= Len(Clauses(b))
           THEN Clauses(b)'[i] = Clauses(b)[i]
           ELSE Clauses(b)'[i].arr[4] = Str(s_or)

\* C9: a map-shaped where or orWhere call appends exactly one clause per map entry,
\* in entry order, [key, "=", value] for a bare value and [key, operator, value] for
\* an [operator, value] pair (the operator in the lower-case spelling clauses are
\* stored in), with the call's combinator; orWhere gives "or" to every clause it
\* appends and leaves the stored ones alone.
C9_MapOneClausePerEntry ==
  [][/\ \A b \in DOMAIN cols :
          (Called /\ IsMapCall(TheCall) /\ TheCall.b = b) =>
            Clauses(b)' = Clauses(b) \o ClausesLowered(TheCall)
     /\ OrWhereForcesOr]_vars

\* what holds of map-shaped calls: one clause per entry as in C9 unless the map has
\* an own entry hasOwnProperty that is not a function, and then the call raises and
\* appends nothing; a positional orWhere that does not raise appends one clause
MapClausesUnlessShadowed ==
  [][/\ \A b \in DOMAIN cols :
          (Called /\ IsMapCall(TheCall) /\ TheCall.b = b) =>
            IF ForInThrows(TheCall.args[1])
            THEN TheCall.threw /\ Clauses(b)' = Clauses(b)
            ELSE Clauses(b)' = Clauses(b) \o ClausesLowered(TheCall)
     /\ \A b \in DOMAIN cols :
          (Called /\ TheCall.call = "orWhere" /\ TheCall.b = b
             /\ ~TheCall.threw /\ IsString(TheCall.args[1])) =>
            Len(Clauses(b)') = Len(Clauses(b)) + 1
     /\ OrWhereForcesOr]_vars

\* after where("a", 1), orWhere({b: ["LIKE", "x"], a: null}) has added
\* two "or" clauses behind the "and" clause
MapClausesAdded ==
  /\ Len(history) = 2
  /\ history[1].call = "where"
  /\ history[1].args = <<Str(s_a), Num(1)>>
  /\ history[2].call = "orWhere"
  /\ history[2].args = <<Obj(<<Prop(s_b, Arr(<<Str(s_LIKE), Str(s_x)>>)), Prop(s_a, Null)>>)>>
  /\ Clauses(1) = <<Clause(Str(s_a), s_eq, Num(1), s_and),
                    Clause(Str(s_b), s_like, Str(s_x), s_or),
                    Clause(Str(s_a), s_eq, Null, s_or)>>

\* the direction C10 says sort stores
DirectionAsStated(direction) ==
  IF direction.type = "number"
  THEN (IF direction = Num(-1) THEN Str(s_desc) ELSE Str(s_asc))
  ELSE IF ~Truthy(direction) THEN Str(s_asc) ELSE direction

\* C10: each sort(field, direction) appends exactly one [field, dir] pair behind the
\* existing ones; dir is "desc" when direction is the number -1, "asc" when it is any
\* other number or is omitted or falsy, and direction itself when it is a non-numeric
\* truthy value.
C10_SortDirection ==
  [][\A b \in DOMAIN cols :
       (Called /\ TheCall.call = "sort" /\ TheCall.b = b) =>
         Ordering(b)' =
           Append(Ordering(b),
                  Arr(<<Arg(TheCall.args, 0), DirectionAsStated(Arg(TheCall.args, 1))>>))]_vars

----------------------------------------------------------------------------
(* Properties of buildQuery and of the terminal methods *)

\* the accumulator of builder b
Acc(b) == Accumulator(cols[b], heap)

\* the accumulator reset() leaves
DefaultAccumulator ==
  [options |-> EmptyOptions, wheres |-> Arr(<<>>), ordering |-> Arr(<<>>),
   _group |-> Arr(<<>>), _limit |-> Null, _offset |-> Null, _remember |-> Null]

\* the requests a step hands to the transport
NewRequests == {i \in DOMAIN client' : i > Len(client)}

\* C1: buildQuery leaves the accumulator at its defaults (no clauses, no ordering,
\* no grouping, no options, limit, offset and remember unset), and a buildQuery
\* that follows a buildQuery with no call in between returns a query with no keys.
C1_BuildQueryResets ==
  [][\A b \in DOMAIN cols :
       (Called /\ TheCall.call = "buildQuery" /\ TheCall.b = b) =>
         /\ Acc(b)' = DefaultAccumulator
         /\ (steps > 0 /\ history[steps].call = "buildQuery" /\ history[steps].b = b) =>
              DOMAIN TheCall.ret = {}]_vars

\* C1 witness: a clause, a buildQuery that returns it, a second buildQuery that
\* returns no key
C1_Witness ==
  /\ Len(history) = 3
  /\ history[1].call = "where"
  /\ history[2].call = "buildQuery"
  /\ DOMAIN history[2].ret = {"q"}
  /\ history[3].call = "buildQuery"
  /\ DOMAIN history[3].ret = {}
  /\ Acc(1) = DefaultAccumulator

CompilingCalls ==
  {"get", "find", "count", "max", "min", "avg", "sum", "first", "firstOrCreate", "each",
   "then", "debug", "paginate", "remove", "increment", "decrement", "updateAll"}

RawCalls == {"create", "update", "drop"}

\* the terminal calls C2 names
StatedTerminals ==
  {"create", "get", "find", "count", "max", "min", "avg", "sum", "first", "firstOrCreate",
   "update", "updateAll", "increment", "decrement", "remove", "drop", "each", "paginate"}

\* C2 as stated: after a call of create, get, find, count, max, min, avg, sum,
\* first, firstOrCreate, update, updateAll, increment, decrement, remove, drop, each
\* or paginate returns, the accumulator is empty again.
C2_EveryTerminalResets ==
  [][\A b \in DOMAIN cols :
       (Called /\ TheCall.call \in StatedTerminals /\ ~TheCall.threw /\ TheCall.b = b) =>
         Acc(b)' = DefaultAccumulator]_vars

\* C2 amended: after a call of get, find, count, max, min, avg, sum, first,
\* firstOrCreate, each, paginate, remove, increment, decrement or updateAll returns,
\* the accumulator is empty again; create, update and drop do not compile and
\* leave the accumulator as it was.
C2_CompilingTerminalResets ==
  [][\A b \in DOMAIN cols :
       /\ (Called /\ TheCall.call \in StatedTerminals \ RawCalls /\ ~TheCall.threw
             /\ TheCall.b = b) =>
            Acc(b)' = DefaultAccumulator
       /\ (Called /\ TheCall.call \in RawCalls /\ TheCall.b = b) =>
            Acc(b)' = Acc(b)]_vars

\* C2 witness: where("a", 1), then get() sent the clause and emptied the
\* accumulator, then a second get() sent nothing of it
C2_Witness ==
  /\ Len(history) = 3
  /\ history[1].call = "where"
  /\ history[2].call = "get"
  /\ history[3].call = "get"
  /\ Len(client) = 2
  /\ DOMAIN client[1].sent = {"q"}
  /\ DOMAIN client[2].sent = {}
  /\ Acc(1) = DefaultAccumulator

\* C3: the query a terminal call hands to the transport holds the clauses, the
\* ordering, the grouping, the limit, offset and remember and the options of the
\* accumulator as they were when the call was made, and no later call on the
\* builder changes the query of a request.
C3_QueryNeverChanges ==
  [][/\ \A i \in DOMAIN client' :
          client'[i].kind = "query" => Contents(heap', client'[i].query) = client'[i].sent
     /\ \A i \in NewRequests :
          client'[i].kind = "query" =>
            LET a == Acc(client'[i].b)
                sent == client'[i].sent
            IN /\ "q" \in DOMAIN sent <=> a.wheres.arr # <<>>
               /\ "q" \in DOMAIN sent => sent["q"] = a.wheres
               /\ "s" \in DOMAIN sent <=> a.ordering.arr # <<>>
               /\ "s" \in DOMAIN sent => sent["s"] = a.ordering
               /\ "g" \in DOMAIN sent <=> a._group.arr # <<>>
               /\ "g" \in DOMAIN sent => sent["g"] = a._group
               /\ "limit" \in DOMAIN sent <=> a._limit # Null
               /\ "limit" \in DOMAIN sent => sent["limit"] = a._limit
               /\ "offset" \in DOMAIN sent <=> a._offset # Null
               /\ "remember" \in DOMAIN sent <=> a._remember # Null
               /\ "select" \in DOMAIN sent <=> a.options["select"] # Undefined
               /\ "select" \in DOMAIN sent => sent["select"] = a.options["select"]]_vars

\* C3 witness: get() has sent a clause and an ordering, its request is pending,
\* and a later where on the builder has started a new clause list
C3_Witness ==
  /\ Len(history) = 3
  /\ history[1].call = "where" /\ history[1].args = <<Str(s_a), Num(1)>>
  /\ history[2].call = "get"
  /\ history[3].call = "orWhere"
  /\ Len(client) = 1
  /\ client[1].state = "pending"
  /\ client[1].sent["q"] = Arr(<<Clause(Str(s_a), s_eq, Num(1), s_and)>>)
  /\ Clauses(1) = <<Clause(Str(s_b), s_eq, Num(2), s_or)>>

\* C4: when a compiling terminal call invokes the transport the accumulator is
\* already reset, and the request being resolved or rejected (or staying pending)
\* changes nothing of the accumulator.
C4_ResetAtDispatch ==
  [][/\ \A i \in NewRequests :
          client'[i].kind = "query" => client'[i].atInvoke = DefaultAccumulator
     /\ \A b \in DOMAIN cols :
          (Called /\ TheCall.call \in CompilingCalls /\ TheCall.b = b) =>
            Acc(b)' = DefaultAccumulator
     /\ \A b \in DOMAIN cols : ~Called => Acc(b)' = Acc(b)]_vars

\* C4 witness: a request that carried a clause was rejected, another is still
\* pending, and the accumulator is at its defaults
C4_Witness ==
  /\ Len(client) = 2
  /\ client[1].kind = "query"
  /\ "q" \in DOMAIN client[1].sent
  /\ client[1].state = "rejected"
  /\ client[2].kind = "query"
  /\ client[2].state = "pending"
  /\ Acc(1) = DefaultAccumulator

\* the key of each option
KeyOf(kind) ==
  CASE kind = "paginate" -> "p" [] kind = "first" -> "f" [] kind = "aggregation" -> "aggr"
    [] kind = "operation" -> "op" [] kind = "data" -> "data" [] kind = "with" -> "with"
    [] kind = "select" -> "select" [] kind = "distinct" -> "distinct"

\* an option payload with something in it: a list with an element, a flag that is set
NonEmptyPayload(v) ==
  IF v.type = "arguments" THEN v.arr # <<>> ELSE Truthy(v)

\* the query C5 states for accumulator a: a key for each non-empty part
QueryAsStated(a) ==
  LET keys == {k \in {"limit"} : a._limit # Null}
                \cup {k \in {"offset"} : a._offset # Null}
                \cup {k \in {"remember"} : a._remember # Null}
                \cup {k \in {"q"} : a.wheres.arr # <<>>}
                \cup {k \in {"s"} : a.ordering.arr # <<>>}
                \cup {k \in {"g"} : a._group.arr # <<>>}
                \cup {KeyOf(o) : o \in {x \in DOMAIN a.options : NonEmptyPayload(a.options[x])}}
  IN [k \in keys |->
        CASE k = "limit" -> a._limit [] k = "offset" -> a._offset
          [] k = "remember" -> a._remember [] k = "q" -> a.wheres
          [] k = "s" -> a.ordering [] k = "g" -> a._group
          [] OTHER -> a.options[CHOOSE o \in DOMAIN a.options : KeyOf(o) = k]]

\* the same with a key for each option whose stored payload is truthy, so that the
\* empty list of select() or join() still gets its key
QueryAsAmended(a) ==
  LET keys == {k \in {"limit"} : a._limit # Null}
                \cup {k \in {"offset"} : a._offset # Null}
                \cup {k \in {"remember"} : a._remember # Null}
                \cup {k \in {"q"} : a.wheres.arr # <<>>}
                \cup {k \in {"s"} : a.ordering.arr # <<>>}
                \cup {k \in {"g"} : a._group.arr # <<>>}
                \cup {KeyOf(o) : o \in {x \in DOMAIN a.options : Truthy(a.options[x])}}
  IN [k \in keys |->
        CASE k = "limit" -> a._limit [] k = "offset" -> a._offset
          [] k = "remember" -> a._remember [] k = "q" -> a.wheres
          [] k = "s" -> a.ordering [] k = "g" -> a._group
          [] OTHER -> a.options[CHOOSE o \in DOMAIN a.options : KeyOf(o) = k]]

\* C5 as stated: the compiled query holds a key if and only if its part of the
\* accumulator is non-empty (limit, offset, remember set; a clause, order or group
\* list with an element; an option set with a non-empty payload), under the key
\* table limit, offset, remember, q, s, g, p, f, aggr, op, data, with, select,
\* distinct, and each value is the accumulated state.
C5_KeyIffNonEmpty ==
  [][\A b \in DOMAIN cols :
       (Called /\ TheCall.call = "buildQuery" /\ TheCall.b = b) =>
         TheCall.ret = QueryAsStated(Acc(b))]_vars

\* C5 amended: as C5, with an option's key present if and only if the stored
\* payload is truthy, whatever it holds: select() and join() called with no
\* argument store an empty list and still yield the keys select and with; limit,
\* offset and remember are present if and only if the stored value is not null.
C5_KeyIffStored ==
  [][\A b \in DOMAIN cols :
       (Called /\ TheCall.call = "buildQuery" /\ TheCall.b = b) =>
         TheCall.ret = QueryAsAmended(Acc(b))]_vars

\* C5 witness: limit(5), offset(5), sort("updated_at", -1) compiled to
\* {limit: 5, offset: 5, s: [["updated_at", "desc"]]}
C5_Witness ==
  /\ Len(history) = 4
  /\ history[1].call = "limit"
  /\ history[2].call = "offset"
  /\ history[3].call = "sort"
  /\ history[4].call = "buildQuery"
  /\ DOMAIN history[4].ret = {"limit", "offset", "s"}
  /\ history[4].ret["limit"] = Num(5)
  /\ history[4].ret["offset"] = Num(5)
  /\ history[4].ret["s"] = Arr(<<Arr(<<Str(s_updated_at), Str(s_desc)>>)>>)

s_path == <<"c", "o", "l", "l", "e", "c", "t", "i", "o", "n", "/", "p", "o", "s", "t", "s">>

\* one DELETE on the bare path for remove(), on the path with "/7" for remove(7)
OneDelete(b) ==
  /\ Cardinality(NewRequests) = 1
  /\ \A i \in NewRequests :
       /\ client'[i].verb = "remove"
       /\ client'[i].path = IF TheCall.args = <<>> THEN s_path ELSE s_path \o <<"/", "7">>

\* C6 as stated: remove() dispatches one DELETE on the bare collection path with
\* the current clauses as query, remove(id) one DELETE on collection/<name>/<id>
\* with no query, whatever was accumulated; the accumulator is empty afterwards.
C6_RemoveByIdNoQuery ==
  [][\A b \in DOMAIN cols :
       (Called /\ TheCall.call = "remove" /\ TheCall.b = b) =>
         /\ OneDelete(b)
         /\ \A i \in NewRequests :
              IF TheCall.args = <<>>
              THEN client'[i].sent = QueryAsAmended(Acc(b))
              ELSE DOMAIN client'[i].sent = {}
         /\ Acc(b)' = DefaultAccumulator]_vars

\* C6 amended: remove() and remove(id) both dispatch one DELETE carrying the query
\* compiled from the accumulator (the clauses and whatever else was accumulated),
\* on the bare collection path and on collection/<name>/<id>; the accumulator is
\* empty afterwards.
C6_RemoveSendsQuery ==
  [][\A b \in DOMAIN cols :
       (Called /\ TheCall.call = "remove" /\ TheCall.b = b) =>
         /\ OneDelete(b)
         /\ \A i \in NewRequests :
              client'[i].kind = "query" /\ client'[i].sent = QueryAsAmended(Acc(b))
         /\ Acc(b)' = DefaultAccumulator]_vars

\* C6 witness: where("a", 1) then remove(7) sent the clause on collection/posts/7
C6_Witness ==
  /\ Len(history) = 2
  /\ history[1].call = "where" /\ history[1].args = <<Str(s_a), Num(1)>>
  /\ history[2].call = "remove"
  /\ history[2].args = <<Num(7)>>
  /\ Len(client) = 1
  /\ client[1].path = s_path \o <<"/", "7">>
  /\ client[1].sent["q"] = Arr(<<Clause(Str(s_a), s_eq, Num(1), s_and)>>)
  /\ Acc(1) = DefaultAccumulator

\* C7: paginate(n), with or without an onComplete continuation, dispatches exactly
\* one read whose query has p = n, before any continuation has run.
C7_PaginateSendsPageSize ==
  [][(Called /\ TheCall.call = "paginate" /\ Len(TheCall.args) >= 1
        /\ TheCall.args[1].type = "number") =>
       /\ Cardinality(NewRequests) = 1
       /\ \A i \in NewRequests :
            /\ client'[i].verb = "get"
            /\ client'[i].state = "pending"
            /\ "p" \in DOMAIN client'[i].sent
            /\ client'[i].sent["p"] = TheCall.args[1]]_vars

----------------------------------------------------------------------------
(* SpecModify: every modifier with two sets of arguments, and buildQuery *)

MaxModifySteps == 3

NextModify ==
  \/ steps < MaxModifySteps /\ Where({<<Str(s_a), Num(1)>>, <<Str(s_b), Str(s_LIKE), Str(s_x)>>})
  \/ steps < MaxModifySteps /\ OrWhere({<<Str(s_b), Num(2)>>})
  \/ steps < MaxModifySteps /\ Sort({<<Str(s_x)>>, <<Str(s_y), Num(-1)>>})
  \/ steps < MaxModifySteps /\ Select({<<Str(s_a)>>, <<Str(s_b), Str(s_title)>>})
  \/ steps < MaxModifySteps /\ Join({<<Str(s_author)>>, <<Str(s_title)>>})
  \/ steps < MaxModifySteps /\ Group({<<Str(s_a)>>, <<Str(s_b)>>})
  \/ steps < MaxModifySteps /\ Distinct
  \/ steps < MaxModifySteps /\ Limit({<<Num(5)>>, <<Num(10)>>})
  \/ steps < MaxModifySteps /\ Offset({<<Num(5)>>, <<Num(10)>>})
  \/ steps < MaxModifySteps /\ Remember({<<Num(10)>>, <<Num(5)>>})
  \/ steps < MaxModifySteps /\ BuildQuery

SpecModify == Init /\ [][NextModify]_vars

----------------------------------------------------------------------------
(* Properties of the modifiers *)

Modifiers ==
  {"where", "orWhere", "join", "select", "distinct", "group", "sort", "limit", "offset",
   "remember"}

\* the part of the accumulator a modifier is about
OwnField(call) ==
  CASE call \in {"where", "orWhere"} -> "wheres"
    [] call = "sort" -> "ordering"
    [] call \in {"join", "select", "distinct"} -> "options"
    [] call = "group" -> "_group"
    [] call = "limit" -> "_limit"
    [] call = "offset" -> "_offset"
    [] call = "remember" -> "_remember"

\* the option a modifier is about
OwnOption(call) ==
  CASE call = "join" -> "with" [] call = "select" -> "select" [] call = "distinct" -> "distinct"
    [] OTHER -> "none"

\* the modifiers that replace what an earlier call of theirs stored
Replacing == {"join", "select", "group", "limit", "offset", "remember"}

\* the key of the query a replacing modifier is about
OwnKey(call) ==
  CASE call = "join" -> "with" [] call = "select" -> "select" [] call = "group" -> "g"
    [] call = "limit" -> "limit" [] call = "offset" -> "offset" [] call = "remember" -> "remember"

\* what a replacing modifier called with args stores: all its arguments for join,
\* select and group, its first argument for limit, offset and remember
Stored(call, args) ==
  IF call \in {"join", "select", "group"} THEN Arguments(args) ELSE Arg(args, 0)

\* what a replacing modifier leaves in its part of accumulator a
OwnValue(call, a) ==
  IF call \in {"join", "select"} THEN a.options[OwnOption(call)] ELSE a[OwnField(call)]

\* C11: a call of join, select, group, limit, offset or remember leaves exactly its
\* own arguments in its part of the accumulator, whatever an earlier call of it had
\* stored, and a buildQuery that follows it returns them under their key; every
\* modifier leaves every other part of the accumulator as it was.
C11_ModifiersReplaceOwnPart ==
  [][\A b \in DOMAIN cols :
       /\ (Called /\ TheCall.call \in Modifiers /\ TheCall.b = b) =>
            /\ \A f \in DOMAIN Acc(b) \ {OwnField(TheCall.call)} : Acc(b)'[f] = Acc(b)[f]
            /\ \A k \in OptionKindSet \ {OwnOption(TheCall.call)} :
                 Acc(b)'.options[k] = Acc(b).options[k]
            /\ TheCall.call \in Replacing =>
                 OwnValue(TheCall.call, Acc(b)') = Stored(TheCall.call, TheCall.args)
       /\ (/\ Called /\ TheCall.call = "buildQuery" /\ TheCall.b = b
           /\ steps > 0 /\ history[steps].b = b /\ history[steps].call \in Replacing) =>
            /\ OwnKey(history[steps].call) \in DOMAIN TheCall.ret
            /\ TheCall.ret[OwnKey(history[steps].call)] =
                 Stored(history[steps].call, history[steps].args)]_vars

\* join("author"), join("title") and a buildQuery that returns only "title"
C11_Witness ==
  /\ steps = 3
  /\ history[1].call = "join" /\ history[1].args = <<Str(s_author)>>
  /\ history[2].call = "join" /\ history[2].args = <<Str(s_title)>>
  /\ history[3].call = "buildQuery"
  /\ history[3].ret["with"] = Arguments(<<Str(s_title)>>)

----------------------------------------------------------------------------
(* Properties of the calls as a whole *)

TerminalVerbs ==
  {"create", "get", "find", "count", "max", "min", "avg", "sum", "first", "firstOrCreate",
   "update", "updateAll", "increment", "decrement", "remove", "drop", "each", "then",
   "paginate"}

\* C12: a call of where, orWhere, join, select, distinct, group, sort, limit,
\* offset, remember or reset hands nothing to the transport and returns the builder
\* it was called on; a call of a terminal verb other than channel hands exactly one
\* request to the transport, and the requests handed over before stay as they are.
C12_OneRequestPerTerminal ==
  [][\A b \in DOMAIN cols :
       (Called /\ TheCall.b = b) =>
         /\ TheCall.call \in Modifiers \cup {"reset"} =>
              /\ client' = client
              /\ TheCall.returned = Builder(b)
         /\ TheCall.call \in TerminalVerbs =>
              /\ Len(client') = Len(client) + 1
              /\ client'[Len(client')].b = b
              /\ client'[Len(client')].call = TheCall.call
              /\ \A i \in DOMAIN client : client'[i] = client[i]]_vars

\* what holds of every call: a modifier hands nothing to the transport, and returns
\* the builder when it does not raise; a terminal verb that does not raise hands
\* over exactly one request, one that raises none
OneRequestUnlessRaised ==
  [][\A b \in DOMAIN cols :
       (Called /\ TheCall.b = b) =>
         /\ TheCall.call \in Modifiers \cup {"reset"} =>
              /\ client' = client
              /\ TheCall.threw \/ TheCall.returned = Builder(b)
         /\ (TheCall.call \in TerminalVerbs /\ ~TheCall.threw) =>
              /\ Len(client') = Len(client) + 1
              /\ client'[Len(client')].b = b
              /\ client'[Len(client')].call = TheCall.call
              /\ \A i \in DOMAIN client : client'[i] = client[i]
         /\ (TheCall.call \in TerminalVerbs /\ TheCall.threw) => client' = client]_vars

\* where, each (one request) and sort: two calls that return the builder around one
\* that hands over a request
OneRequestBetweenModifiers ==
  /\ steps = 3
  /\ history[1].call = "where" /\ history[1].returned = Builder(1)
  /\ history[2].call = "each"
  /\ history[3].call = "sort" /\ history[3].returned = Builder(1)
  /\ Len(client) = 1
  /\ client[1].call = "each"

\* C13: channel() raises in every state of the builder, hands nothing to the
\* transport and leaves the builder and its accumulator exactly as they were.
C13_ChannelAlwaysFails ==
  [][\A b \in DOMAIN cols :
       (Called /\ TheCall.call = "channel" /\ TheCall.b = b) =>
         /\ TheCall.threw
         /\ TheCall.returned = Nothing
         /\ client' = client
         /\ cols'[b] = cols[b]
         /\ Acc(b)' = Acc(b)]_vars

\* channel() called with a clause and a limit accumulated: both are still there
C13_Witness ==
  /\ steps = 3
  /\ history[1].call = "where"
  /\ history[2].call = "limit"
  /\ history[3].call = "channel" /\ history[3].threw
  /\ Len(Clauses(1)) = 1
  /\ Acc(1)._limit = Num(5)
  /\ client = <<>>

----------------------------------------------------------------------------
(* SpecConstruct: builders constructed with every short name over a few characters *)

MaxConstructSteps == 2

\* characters the pattern accepts (a, z, 0, _, /) and characters it does not
NameAlphabet == {"a", "z", "0", "_", "/", "A", "-"}

\* the names of up to two characters, the empty one among them
Names ==
  {Str(<<>>)} \cup {Str(<<x>>) : x \in NameAlphabet}
    \cup {Str(<<x, y>>) : x \in NameAlphabet, y \in NameAlphabet}

\* the client before any collection was asked of it
InitClient ==
  /\ cols = <<>>
  /\ heap = NoHeap
  /\ client = <<>>
  /\ history = <<>>

\* names that are not strings: RegExp.test converts them before it matches
OtherNames == {Arr(<<Str(<<"a">>)>>), Arr(<<>>), Null, NoString}

NextConstruct == steps < MaxConstructSteps /\ Construct(Names \cup OtherNames)

SpecConstruct == InitClient /\ [][NextConstruct]_vars

\* a-z, 0-9, underscore and slash, as C14 lists them
StatedNameChars ==
  {"a", "b", "c", "d", "e", "f", "g", "h", "i", "j", "k", "l", "m"}
    \cup {"n", "o", "p", "q", "r", "s", "t", "u", "v", "w", "x", "y", "z"}
    \cup {"0", "1", "2", "3", "4", "5", "6", "7", "8", "9"} \cup {"_", "/"}

\* a non-empty string over the stated characters
NameAsStated(name) ==
  /\ name.type = "string"
  /\ name.str # <<>>
  /\ \A i \in DOMAIN name.str : name.str[i] \in StatedNameChars

\* C14: constructing with a non-empty name over a-z, 0-9, _ and / gives one more
\* builder, with the default accumulator and the path collection/<name>; with any
\* other string it raises and gives no builder; in neither case is a request made,
\* and the builders there are stay as they are.
C14_ConstructionValidatesName ==
  [][(Called /\ TheCall.call = "constructor" /\ IsString(TheCall.args[1])) =>
       /\ client' = client
       /\ \A b \in DOMAIN cols : cols'[b] = cols[b] /\ Acc(b)' = Acc(b)
       /\ IF NameAsStated(TheCall.args[1])
          THEN /\ ~TheCall.threw
               /\ \A n \in 1..MaxConstructSteps + 1 :
                    n = Len(cols) + 1 =>
                      /\ DOMAIN cols' = 1..n
                      /\ TheCall.returned = Builder(n)
                      /\ Acc(n)' = DefaultAccumulator
                      /\ cols'[n].name = TheCall.args[1]
                      /\ cols'[n].segments = s_collection \o TheCall.args[1].str
          ELSE /\ TheCall.threw
               /\ cols' = cols]_vars

\* the name "A" refused, then the name "a/" accepted
C14_Witness ==
  /\ steps = 2
  /\ history[1].args = <<Str(<<"A">>)>> /\ history[1].threw
  /\ history[2].args = <<Str(<<"a", "/">>)>> /\ ~history[2].threw
  /\ Len(cols) = 1
  /\ cols[1].segments = s_collection \o <<"a", "/">>

----------------------------------------------------------------------------
(* SpecVerbs: the aggregations and the writes, with filters accumulated before them *)

MaxVerbSteps == 3

NoData == Obj(<<>>)

NextVerbs ==
  \/ steps < MaxVerbSteps /\ Where({<<Str(s_a), Num(1)>>})
  \/ steps < MaxVerbSteps /\ Limit({<<Num(5)>>})
  \/ steps < MaxVerbSteps /\ Get
  \/ steps < MaxVerbSteps /\ Count({<<>>, <<Str(s_a)>>})
  \/ steps < MaxVerbSteps /\ Max({<<Str(s_a)>>})
  \/ steps < MaxVerbSteps /\ Min({<<Str(s_b)>>})
  \/ steps < MaxVerbSteps /\ Avg({<<Str(s_a)>>})
  \/ steps < MaxVerbSteps /\ Sum({<<Str(s_b)>>})
  \/ steps < MaxVerbSteps /\ Create({<<Data>>})
  \/ steps < MaxVerbSteps /\ FirstOrCreate({<<Data>>, <<NoData>>, <<Null>>, <<Str(<<>>)>>})
  \/ steps < MaxVerbSteps /\ Find({<<Num(7)>>, <<Arr(<<Num(1), Null, Str(s_a)>>)>>, <<NoString>>,
                                   <<Num(7), Callback>>, <<Str(s_a), Undefined>>})
  \/ steps < MaxVerbSteps /\ Debug({<<>>, <<Str(<<"i", "n", "f", "o">>)>>, <<Str(s_toString)>>,
                                    <<Arr(<<Str(<<"l", "o", "g">>)>>)>>, <<Str(s_x)>>,
                                    <<Str(<<"_", "s", "t", "d", "o", "u", "t", "E", "r", "r", "o", "r", "H", "a", "n", "d", "l", "e", "r">>)>>,
                                    <<NoString>>})
  \/ steps < MaxVerbSteps /\ Remove({<<Arr(<<>>)>>, <<NoString>>})
  \/ steps < MaxVerbSteps /\ Update({<<Num(7), Data>>, <<Arr(<<Num(1), Num(2)>>), Data>>,
                                     <<NoString, Data>>})
  \/ steps < MaxVerbSteps /\ UpdateAll({<<Data>>, <<NoData>>, <<Num(0)>>, <<Null>>})
  \/ steps < MaxVerbSteps /\ Increment({<<Str(s_a), Num(1)>>})
  \/ steps < MaxVerbSteps /\ Decrement({<<Str(s_b), Num(2)>>})

SpecVerbs == Init /\ [][NextVerbs]_vars

----------------------------------------------------------------------------
(* Properties of the aggregations and of the writes *)

\* the name of a method, spelled out
Spelled(call) ==
  CASE call = "count" -> <<"c", "o", "u", "n", "t">>
    [] call = "max" -> <<"m", "a", "x">>
    [] call = "min" -> <<"m", "i", "n">>
    [] call = "avg" -> <<"a", "v", "g">>
    [] call = "sum" -> <<"s", "u", "m">>
    [] call = "increment" -> <<"i", "n", "c", "r", "e", "m", "e", "n", "t">>
    [] call = "decrement" -> <<"d", "e", "c", "r", "e", "m", "e", "n", "t">>

\* accumulator a with one more option set
WithOption(a, kind, v) == [a EXCEPT !.options[kind] = v]

\* the one request a step hands over: its verb, its path and the query it carries
OneRequest(verb, path, sent) ==
  /\ Len(client') = Len(client) + 1
  /\ client'[Len(client')].verb = verb
  /\ client'[Len(client')].path = path
  /\ client'[Len(client')].kind = "query"
  /\ client'[Len(client')].sent = sent

AggregateVerbs == {"count", "max", "min", "avg", "sum"}

\* C15: count, max, min, avg and sum each hand over one read on the collection path
\* whose query has aggr = {method, field} next to everything accumulated before,
\* the field being "*" for count(); the accumulator is at its defaults afterwards,
\* and no request of another verb carries aggr.
C15_AggregationsRead ==
  [][\A b \in DOMAIN cols :
       (Called /\ TheCall.b = b) =>
         /\ TheCall.call \in AggregateVerbs =>
              /\ OneRequest("get", cols[b].segments,
                            QueryAsAmended(WithOption(Acc(b), "aggregation",
                              Obj(<<Prop(s_method, Str(Spelled(TheCall.call))),
                                    Prop(s_field, IF TheCall.args = <<>> THEN Str(s_star)
                                                                         ELSE TheCall.args[1])>>))))
              /\ Acc(b)' = DefaultAccumulator
         /\ TheCall.call \notin AggregateVerbs =>
              \A i \in NewRequests : "aggr" \notin DOMAIN client'[i].sent]_vars

\* where("a", 1), count(), get(): the count carries the clause and {count, "*"},
\* the read after it carries neither
C15_Witness ==
  /\ steps = 3
  /\ history[1].call = "where"
  /\ history[2].call = "count" /\ history[2].args = <<>>
  /\ history[3].call = "get"
  /\ client[1].sent["aggr"] = Obj(<<Prop(s_method, Str(<<"c", "o", "u", "n", "t">>)),
                                     Prop(s_field, Str(s_star))>>)
  /\ client[1].sent["q"] = Arr(<<Clause(Str(s_a), s_eq, Num(1), s_and)>>)
  /\ DOMAIN client[2].sent = {}

----------------------------------------------------------------------------
(* SpecTwo: a second builder constructed, calls on the two interleaved *)

MaxTwoSteps == 4

NextTwo ==
  \/ steps < MaxTwoSteps /\ Len(cols) < 2 /\ Construct({Str(s_author)})
  \/ steps < MaxTwoSteps /\ Where({<<Str(s_a), Num(1)>>})
  \/ steps < MaxTwoSteps /\ Sort({<<Str(s_x)>>})
  \/ steps < MaxTwoSteps /\ Select({<<Str(s_a)>>})
  \/ steps < MaxTwoSteps /\ Limit({<<Num(5)>>})
  \/ steps < MaxTwoSteps /\ Reset
  \/ steps < MaxTwoSteps /\ BuildQuery
  \/ steps < MaxTwoSteps /\ Get
  \/ steps < MaxTwoSteps /\ Count({<<>>})
  \/ steps < MaxTwoSteps /\ UpdateAll({<<Data>>})
  \/ steps < MaxTwoSteps /\ Remove({<<>>})

SpecTwo == Init /\ [][NextTwo]_vars

----------------------------------------------------------------------------
(* Properties of two builders *)

\* what a call does to a builder that is alone with its arrays: the builder and
\* the arrays after it, and the requests it hands over
Alone(r, reqs) == [this |-> r.this, heap |-> r.heap, reqs |-> reqs]

Apply(c, h, e) ==
  CASE e.call = "where" ->
         Alone(where(c, h, Arg(e.args, 0), Arg(e.args, 1), Arg(e.args, 2), Arg(e.args, 3)), <<>>)
    [] e.call = "sort" -> Alone(sort(c, h, Arg(e.args, 0), Arg(e.args, 1)), <<>>)
    [] e.call = "select" -> Alone(select(c, h, e.args), <<>>)
    [] e.call = "limit" -> Alone(limit(c, h, Arg(e.args, 0)), <<>>)
    [] e.call = "reset" -> Alone(reset(c, h), <<>>)
    [] e.call = "buildQuery" -> Alone(buildQuery(c, h), <<>>)
    [] e.call = "get" -> LET r == get(c, h) IN Alone(r, r.reqs)
    [] e.call = "count" -> LET r == count(c, h, e.args) IN Alone(r, r.reqs)
    [] e.call = "updateAll" -> LET r == updateAll(c, h, Arg(e.args, 0)) IN Alone(r, r.reqs)
    [] e.call = "remove" -> LET r == remove(c, h, Arg(e.args, 0)) IN Alone(r, r.reqs)

\* a builder of that name, alone, after the calls es made on it one after another
RECURSIVE Replay(_, _, _)
Replay(c, h, es) ==
  IF es = <<>> THEN [this |-> c, heap |-> h]
  ELSE LET r == Apply(c, h, Head(es)) IN Replay(r.this, r.heap, Tail(es))

\* the first n calls of the history that were made on builder b
CallsOn(b, n) ==
  LET OnB(e) == e.b = b /\ e.call # "constructor"
  IN SelectSeq(SubSeq(history, 1, n), OnB)

\* builder b as it would be, had the calls made on it among the first n of the
\* history been the only calls made at all
AloneAfter(b, n) ==
  LET r == constructor(NoHeap, cols[b].name)
  IN Replay(r.this, r.heap, CallsOn(b, n))

\* C16: the accumulator of each builder is what the calls made on that builder
\* alone give, whatever was called on the other builder in between; and each request
\* handed over (verb, path, query) is the one the call would have handed over had
\* the calls on its builder been the only ones.
C16_BuildersShareNothing ==
  /\ \A b \in DOMAIN cols :
       LET a == AloneAfter(b, steps)
       IN Acc(b) = Accumulator(a.this, a.heap)
  /\ \A i \in DOMAIN client :
       LET a == AloneAfter(client[i].b, client[i].step - 1)
           req == Apply(a.this, a.heap, history[client[i].step]).reqs[1]
       IN /\ client[i].verb = req.verb
          /\ client[i].path = req.path
          /\ client[i].sent = req.sent
          /\ Contents(heap, client[i].query) = req.sent

\* where on the first builder, get on the second, get on the first: the second sent
\* an empty query, the first its clause
C16_Witness ==
  /\ steps = 4
  /\ Len(cols) = 2
  /\ Len(client) = 2
  /\ client[1].b = 2 /\ client[1].call = "get" /\ DOMAIN client[1].sent = {}
  /\ client[2].b = 1 /\ client[2].call = "get" /\ DOMAIN client[2].sent = {"q"}

\* C17: update(id, data) hands over one request on collection/<name>/<id> with the
\* raw payload through put, the verb of updateAll, increment and decrement, and not
\* through post, the verb of create and firstOrCreate.
C17_UpdateUsesPut ==
  [][\A b \in DOMAIN cols :
       (Called /\ TheCall.b = b) =>
         /\ TheCall.call = "update" =>
              /\ Len(client') = Len(client) + 1
              /\ client'[Len(client')].verb = "put"
              /\ client'[Len(client')].path =
                   cols[b].segments \o <<"/">> \o JSToString(TheCall.args[1])
              /\ client'[Len(client')].kind = "payload"
              /\ client'[Len(client')].payload = TheCall.args[2]
         /\ TheCall.call \in {"updateAll", "increment", "decrement"} =>
              \A i \in NewRequests : client'[i].verb = "put"
         /\ TheCall.call \in {"create", "firstOrCreate"} =>
              \A i \in NewRequests : client'[i].verb = "post"]_vars

\* the last request handed over carries everything query q holds
Carries(q) ==
  \A k \in DOMAIN q :
    k \in DOMAIN client'[Len(client')].sent /\ client'[Len(client')].sent[k] = q[k]

\* C18 as stated: for every payload, updateAll(data) hands over a body with data =
\* payload next to everything accumulated before, firstOrCreate(data) one with
\* f = 1 and data = payload next to it, increment and decrement(field, value) one
\* with op = {method, field, value} next to it.
C18_EveryPayloadSent ==
  [][\A b \in DOMAIN cols :
       (Called /\ TheCall.b = b) =>
         LET sent == client'[Len(client')].sent
         IN /\ TheCall.call = "updateAll" =>
                 /\ Len(client') = Len(client) + 1
                 /\ Carries(QueryAsAmended(Acc(b)))
                 /\ "data" \in DOMAIN sent /\ sent["data"] = TheCall.args[1]
            /\ TheCall.call = "firstOrCreate" =>
                 /\ Len(client') = Len(client) + 1
                 /\ Carries(QueryAsAmended(Acc(b)))
                 /\ "f" \in DOMAIN sent /\ sent["f"] = Num(1)
                 /\ "data" \in DOMAIN sent /\ sent["data"] = TheCall.args[1]
            /\ TheCall.call \in {"increment", "decrement"} =>
                 /\ Len(client') = Len(client) + 1
                 /\ Carries(QueryAsAmended(Acc(b)))
                 /\ "op" \in DOMAIN sent
                 /\ sent["op"] = Obj(<<Prop(s_method, Str(Spelled(TheCall.call))),
                                        Prop(s_field, TheCall.args[1]),
                                        Prop(s_value, TheCall.args[2])>>)]_vars

\* C18 amended: as C18 for a payload that is truthy; a payload that is falsy (null,
\* 0, "", false, undefined) is left out, and the body has no data next to what was
\* accumulated before (and f = 1 for firstOrCreate).
C18_WritesCarryFilters ==
  [][\A b \in DOMAIN cols :
       (Called /\ TheCall.b = b) =>
         /\ TheCall.call = "updateAll" =>
              /\ OneRequest("put", cols[b].segments,
                            QueryAsAmended(WithOption(Acc(b), "data", TheCall.args[1])))
              /\ IF Truthy(TheCall.args[1])
                 THEN client'[Len(client')].sent["data"] = TheCall.args[1]
                 ELSE "data" \notin DOMAIN client'[Len(client')].sent
         /\ TheCall.call = "firstOrCreate" =>
              /\ OneRequest("post", cols[b].segments,
                            QueryAsAmended(WithOption(WithOption(Acc(b), "first", Num(1)),
                                                      "data", TheCall.args[1])))
              /\ client'[Len(client')].sent["f"] = Num(1)
              /\ IF Truthy(TheCall.args[1])
                 THEN client'[Len(client')].sent["data"] = TheCall.args[1]
                 ELSE "data" \notin DOMAIN client'[Len(client')].sent
         /\ TheCall.call \in {"increment", "decrement"} =>
              /\ OneRequest("put", cols[b].segments,
                            QueryAsAmended(WithOption(Acc(b), "operation",
                              Obj(<<Prop(s_method, Str(Spelled(TheCall.call))),
                                    Prop(s_field, TheCall.args[1]),
                                    Prop(s_value, TheCall.args[2])>>))))
              /\ "op" \in DOMAIN client'[Len(client')].sent]_vars

\* where("a", 1), updateAll(data), updateAll(0): the first body has the clause and
\* the payload, the second, sent from the emptied accumulator, has nothing
C18_Witness ==
  /\ steps = 3
  /\ history[1].call = "where"
  /\ history[2].call = "updateAll" /\ history[2].args = <<Data>>
  /\ history[3].call = "updateAll" /\ history[3].args = <<Num(0)>>
  /\ Len(client) = 2
  /\ DOMAIN client[1].sent = {"q", "data"}
  /\ client[1].sent["data"] = Data
  /\ client[1].sent["q"] = Arr(<<Clause(Str(s_a), s_eq, Num(1), s_and)>>)
  /\ DOMAIN client[2].sent = {}

----------------------------------------------------------------------------
(* Properties of the clause list *)

UpperCaseLetters ==
  {"A", "B", "C", "D", "E", "F", "G", "H", "I", "J", "K", "L", "M"}
    \cup {"N", "O", "P", "Q", "R", "S", "T", "U", "V", "W", "X", "Y", "Z"}

\* a clause as the spec describes it: [field, lower-case operator, value, "and" or "or"]
WellFormedClause(cl) ==
  /\ cl.type = "array"
  /\ Len(cl.arr) = 4
  /\ cl.arr[2].type = "string"
  /\ \A i \in DOMAIN cl.arr[2].str : cl.arr[2].str[i] \notin UpperCaseLetters
  /\ cl.arr[4] \in {Str(s_and), Str(s_or)}

\* C19: in every reachable state every element of the clause list is a 4-tuple
\* [field, operator, value, combinator] with a lower-case operator and the
\* combinator "and" or "or", however where (its fourth argument included) and
\* orWhere were called.
C19_ClausesWellFormed ==
  \A b \in DOMAIN cols : \A i \in DOMAIN Clauses(b) : WellFormedClause(Clauses(b)[i])

\* C20: a where or orWhere call that raises leaves the clause list and the rest of
\* the accumulator exactly as they were before the call.
C20_WhereAllOrNothing ==
  [][\A b \in DOMAIN cols :
       (Called /\ TheCall.call \in {"where", "orWhere"} /\ TheCall.b = b /\ TheCall.threw) =>
         Acc(b)' = Acc(b)]_vars

====
